---------------------------- MODULE Spec2Model ----------------------------
(***************************************************************************)
(* CARGOS SDK: the fixed-width record codec, the validation gate, the      *)
(* token lifecycle of CargosClient and the batch chunker.                  *)
(*                                                                         *)
(* A JavaScript string is a sequence of UTF-16 code units; it is modelled  *)
(* as a TLA+ sequence whose elements are code units (one-character         *)
(* strings, plus named units for characters outside ASCII).  `length`,     *)
(* `substring`, `padEnd` and `padStart` all count code units.              *)
(***************************************************************************)
EXTENDS Integers, Sequences, FiniteSets, TLC

VARIABLES
    op,           \* codec harness: the function applied last
    arg,          \* codec harness: its argument(s)
    out,          \* codec harness: the value it returned
    now,          \* the clock (new Date()), in minutes
    apiKey,       \* CargosClient.apiKey
    token,        \* CargosClient.token (optional)
    tokenExpiry,  \* CargosClient.tokenExpiry (optional)
    exchanges,    \* history: credential exchanges issued so far (fetch of /api/Token)
    pc,           \* per task: where its pending API call is suspended
    call,         \* per task: the API method it called
    tok,          \* per task: the token getToken() handed back
    hit,          \* per task: outcome of the last cache check of getToken()
    fetched,      \* per task: credential exchanges issued within its current call
    fetchId,      \* per task: the exchange it is waiting for
    expires,      \* per task: data.expires_date of the token response it read (optional)
    ret,          \* per task: the value its call returned, or the error it threw
    contracts,    \* per task: the contract list passed to its call
    index,        \* per task: loop index i of batchSendContracts
    chunk,        \* per task: the list sendContracts is working on
    results,      \* per task: results array of batchSendContracts
    dispatched,   \* per task, history: the lists handed to sendContracts, in order
    sent,         \* per task, history: the service requests it issued, in order
    tableId,      \* per task: the table asked of getTable (optional)
    pacing,       \* per task: the delay (ms) its caller wants between two chunks
    timer         \* per task: the setTimeout delay (ms) it is waiting on, 0 when none

codecVars == <<op, arg, out>>
clientVars == <<now, apiKey, token, tokenExpiry, exchanges>>
tokenTaskVars == <<tok, hit, fetched, fetchId, expires>>
sendTaskVars == <<contracts, index, chunk, results, dispatched, sent, tableId, pacing, timer>>
taskVars == <<pc, call, ret, tokenTaskVars, sendTaskVars>>
vars == <<codecVars, clientVars, taskVars>>

\* An optional value (T | undefined) is <<>> when absent and <<v>> when present.
None == <<>>
Some(v) == <<v>>
IsSome(o) == Len(o) = 1
Get(o) == o[1]

-----------------------------------------------------------------------------
(* Bounds of the codec harness                                             *)

MaxLen == 3
MaxWidth == 4
MaxNumber == 12

(* Bounds of the client model                                              *)

NumTasks == 2
MaxTime == 3
MaxExchanges == 3
MaxContracts == 301

-----------------------------------------------------------------------------
(* JavaScript string primitives                                            *)

Min(a, b) == IF a < b THEN a ELSE b
Max(a, b) == IF a > b THEN a ELSE b

\* "x".repeat(n)
Repeat(unit, n) == [i \in 1..n |-> unit]

\* s.substring(0, end) for 0 <= end
substring0(s, end) == SubSeq(s, 1, Min(end, Len(s)))

\* s.substring(start, end) for 0 <= start <= end
substring(s, start, end) == SubSeq(s, Min(start, Len(s)) + 1, Min(end, Len(s)))

\* s.padEnd(targetLength, fill): fill is repeated and cut to the missing
\* length; an empty fill or a long enough s returns s unchanged.
padEnd(s, targetLength, fill) ==
    IF Len(s) >= targetLength \/ Len(fill) = 0
    THEN s
    ELSE s \o [i \in 1..(targetLength - Len(s)) |-> fill[((i - 1) % Len(fill)) + 1]]

\* s.padStart(targetLength, fill)
padStart(s, targetLength, fill) ==
    IF Len(s) >= targetLength \/ Len(fill) = 0
    THEN s
    ELSE [i \in 1..(targetLength - Len(s)) |-> fill[((i - 1) % Len(fill)) + 1]] \o s

DigitChars == <<"0", "1", "2", "3", "4", "5", "6", "7", "8", "9">>

RECURSIVE Digits(_)
Digits(n) == IF n < 10 THEN <<DigitChars[n + 1]>>
             ELSE Digits(n \div 10) \o <<DigitChars[(n % 10) + 1]>>

\* String(value) for an integer value
String(value) == IF value < 0 THEN <<"-">> \o Digits(-value) ELSE Digits(value)

\* Text literals are written as tuples of units; Text(n, u) is a text of n units.
Text(n, unit) == Repeat(unit, n)

-----------------------------------------------------------------------------
(* Field codec                                                             *)

padStringNoTruncate(value, length, fillChar) == padEnd(value, length, fillChar)

padString(value, length, fillChar) ==
    IF Len(value) > length
    THEN substring0(value, length)
    ELSE padEnd(value, length, fillChar)

padNumberTruncating(value, length) ==
    substring0(padStart(String(value), length, <<"0">>), length)

padNumber(value, length) == padStart(String(value), length, <<"0">>)

formatDateZeroBasedMonth(date, withTime) ==
    LET day == padStart(String(date.date), 2, <<"0">>)
        month == padStart(String(date.month), 2, <<"0">>)
        year == String(date.fullYear)
    IN  IF withTime
        THEN LET hours == padStart(String(date.hours), 2, <<"0">>)
                 minutes == padStart(String(date.minutes), 2, <<"0">>)
             IN  day \o <<"/">> \o month \o <<"/">> \o year \o <<" ">>
                     \o hours \o <<":">> \o minutes
        ELSE day \o <<"/">> \o month \o <<"/">> \o year

\* A Date is modelled by the local-time fields the code reads:
\* getDate(), getMonth() (0-based), getFullYear(), getHours(), getMinutes().
formatDate(date, withTime) ==
    LET day == padStart(String(date.date), 2, <<"0">>)
        month == padStart(String(date.month + 1), 2, <<"0">>)
        year == String(date.fullYear)
    IN  IF withTime
        THEN LET hours == padStart(String(date.hours), 2, <<"0">>)
                 minutes == padStart(String(date.minutes), 2, <<"0">>)
             IN  day \o <<"/">> \o month \o <<"/">> \o year \o <<" ">>
                     \o hours \o <<":">> \o minutes
        ELSE day \o <<"/">> \o month \o <<"/">> \o year

RECURSIVE Concat(_)
Concat(pieces) == IF pieces = <<>> THEN <<>> ELSE Head(pieces) \o Concat(Tail(pieces))

SPACE == <<" ">>

\* The pieces formatDriver appends to the record, in order (one per `record +=`).
driverPieces(driver) ==
    << padString(driver.surname, 50, SPACE),
       padString(driver.name, 30, SPACE),
       padEnd(formatDate(driver.birthDate, FALSE), 10, SPACE),
       padNumber(driver.birthPlace.code, 9),
       padNumber(driver.citizenship.code, 9),
       IF IsSome(driver.residencePlace)
           THEN padNumber(Get(driver.residencePlace).code, 9)
           ELSE Repeat(" ", 9),
       padString(IF IsSome(driver.residenceAddress) THEN Get(driver.residenceAddress) ELSE <<>>,
                 150, SPACE),
       padString(<<driver.documentType>>, 5, SPACE),
       padString(driver.documentNumber, 20, SPACE),
       padNumber(driver.documentIssuePlace.code, 9),
       padString(driver.licenseNumber, 20, SPACE),
       padNumber(driver.licenseIssuePlace.code, 9),
       padString(IF IsSome(driver.phone) THEN Get(driver.phone) ELSE <<>>, 20, SPACE) >>

formatDriver(driver) == Concat(driverPieces(driver))

\* The padding formatContract appends when there is no secondary driver.
SecondaryDriverPadding == 190

secondaryPiece(contract) ==
    IF IsSome(contract.secondaryDriver)
    THEN formatDriver(Get(contract.secondaryDriver))
    ELSE Repeat(" ", SecondaryDriverPadding)

\* The pieces formatContract appends before the driver blocks, in order.
contractPieces(contract) ==
    << padString(contract.id, 50, SPACE),
       padEnd(formatDate(contract.createdDate, TRUE), 16, SPACE),
       <<contract.paymentType>>,
       padEnd(formatDate(contract.checkoutDate, TRUE), 16, SPACE),
       padNumber(contract.checkoutLocation.code, 9),
       padString(contract.checkoutAddress, 150, SPACE),
       padEnd(formatDate(contract.checkinDate, TRUE), 16, SPACE),
       padNumber(contract.checkinLocation.code, 9),
       padString(contract.checkinAddress, 150, SPACE),
       padString(contract.operatorId, 50, SPACE),
       padString(contract.agency.id, 30, SPACE),
       padString(contract.agency.name, 70, SPACE),
       padNumber(contract.agency.location.code, 9),
       padString(contract.agency.address, 150, SPACE),
       padString(contract.agency.phone, 20, SPACE),
       <<contract.vehicle.type>>,
       padString(contract.vehicle.brand, 50, SPACE),
       padString(contract.vehicle.model, 100, SPACE),
       padString(contract.vehicle.plate, 15, SPACE),
       padString(IF IsSome(contract.vehicle.color) THEN Get(contract.vehicle.color) ELSE <<>>,
                 50, SPACE),
       IF contract.vehicle.hasGPS = Some(TRUE) THEN <<"1">> ELSE <<"0">>,
       IF contract.vehicle.hasEngineBlock = Some(TRUE) THEN <<"1">> ELSE <<"0">> >>

formatContract(contract) ==
    Concat(contractPieces(contract))
        \o formatDriver(contract.mainDriver)
        \o secondaryPiece(contract)

-----------------------------------------------------------------------------
(* Validation gate                                                         *)

ErrContractId == "Contract ID must be between 1 and 50 characters"
ErrAgencyId == "Agency ID must be between 1 and 30 characters"
ErrCheckoutAddress == "Checkout address must be at least 3 characters"
ErrCheckinAddress == "Checkin address must be at least 3 characters"
ErrDocumentNumber == "Document number must be at least 5 characters"
ErrLicenseNumber == "License number must be at least 5 characters"
ErrVehiclePlate == "Vehicle plate must be at least 3 characters"
ErrSecondaryDriver == "Secondary driver must have all required fields or be removed"

\* `!s` for a string s: the empty string is falsy.
Falsy(s) == Len(s) = 0

\* errors.push(msg) when cond
PushIf(errors, cond, msg) == IF cond THEN Append(errors, msg) ELSE errors

isValidContractDataShortCircuit(contract) ==
    IF Falsy(contract.id) \/ Len(contract.id) > 50 THEN <<ErrContractId>>
    ELSE IF Falsy(contract.agency.id) \/ Len(contract.agency.id) > 30 THEN <<ErrAgencyId>>
    ELSE IF Len(contract.checkoutAddress) < 3 THEN <<ErrCheckoutAddress>>
    ELSE IF Len(contract.checkinAddress) < 3 THEN <<ErrCheckinAddress>>
    ELSE IF Len(contract.mainDriver.documentNumber) < 5 THEN <<ErrDocumentNumber>>
    ELSE IF Len(contract.mainDriver.licenseNumber) < 5 THEN <<ErrLicenseNumber>>
    ELSE IF Len(contract.vehicle.plate) < 3 THEN <<ErrVehiclePlate>>
    ELSE IF /\ IsSome(contract.secondaryDriver)
            /\ \/ Falsy(Get(contract.secondaryDriver).surname)
               \/ Falsy(Get(contract.secondaryDriver).name)
               \/ Falsy(Get(contract.secondaryDriver).documentNumber)
         THEN <<ErrSecondaryDriver>>
    ELSE <<>>

isValidContractDataPerField(contract) ==
    LET e1 == PushIf(<<>>, Falsy(contract.id) \/ Len(contract.id) > 50, ErrContractId)
        e2 == PushIf(e1, Falsy(contract.agency.id) \/ Len(contract.agency.id) > 30,
                     ErrAgencyId)
        e3 == PushIf(e2, Len(contract.checkoutAddress) < 3, ErrCheckoutAddress)
        e4 == PushIf(e3, Len(contract.checkinAddress) < 3, ErrCheckinAddress)
        e5 == PushIf(e4, Len(contract.mainDriver.documentNumber) < 5, ErrDocumentNumber)
        e6 == PushIf(e5, Len(contract.mainDriver.licenseNumber) < 5, ErrLicenseNumber)
        e7 == PushIf(e6, Len(contract.vehicle.plate) < 3, ErrVehiclePlate)
        e8 == PushIf(e7, IsSome(contract.secondaryDriver)
                             /\ Falsy(Get(contract.secondaryDriver).surname),
                     ErrSecondaryDriver)
        e9 == PushIf(e8, IsSome(contract.secondaryDriver)
                             /\ Falsy(Get(contract.secondaryDriver).name),
                     ErrSecondaryDriver)
        e10 == PushIf(e9, IsSome(contract.secondaryDriver)
                              /\ Falsy(Get(contract.secondaryDriver).documentNumber),
                      ErrSecondaryDriver)
    IN  e10

isValidContractData(contract) ==
    LET e1 == PushIf(<<>>, Falsy(contract.id) \/ Len(contract.id) > 50, ErrContractId)
        e2 == PushIf(e1, Falsy(contract.agency.id) \/ Len(contract.agency.id) > 30,
                     ErrAgencyId)
        e3 == PushIf(e2, Len(contract.checkoutAddress) < 3, ErrCheckoutAddress)
        e4 == PushIf(e3, Len(contract.checkinAddress) < 3, ErrCheckinAddress)
        e5 == PushIf(e4, Len(contract.mainDriver.documentNumber) < 5, ErrDocumentNumber)
        e6 == PushIf(e5, Len(contract.mainDriver.licenseNumber) < 5, ErrLicenseNumber)
        e7 == PushIf(e6, Len(contract.vehicle.plate) < 3, ErrVehiclePlate)
        e8 == PushIf(e7,
                     /\ IsSome(contract.secondaryDriver)
                     /\ \/ Falsy(Get(contract.secondaryDriver).surname)
                        \/ Falsy(Get(contract.secondaryDriver).name)
                        \/ Falsy(Get(contract.secondaryDriver).documentNumber),
                     ErrSecondaryDriver)
    IN  e8

-----------------------------------------------------------------------------
(* Coding tables                                                           *)

\* data.toString("utf-8") of a Buffer of ASCII bytes: one unit per byte.
AsciiUnit(byte) ==
    CASE byte = 10 -> "\n"
      [] byte = 13 -> "\r"
      [] byte = 32 -> " "
      [] byte = 35 -> "#"
      [] byte = 48 -> "0"
      [] byte = 49 -> "1"
      [] byte = 97 -> "a"
      [] byte = 98 -> "b"

toStringUtf8(data) == [i \in DOMAIN data |-> AsciiUnit(data[i])]

\* s.split(sep) for a separator of one unit: the pieces between its
\* occurrences ("" splits into the one piece "").
RECURSIVE split(_, _)
split(s, sep) ==
    IF \A i \in DOMAIN s : s[i] # sep
    THEN <<s>>
    ELSE LET first == CHOOSE i \in DOMAIN s : s[i] = sep /\ \A j \in 1..(i - 1) : s[j] # sep
         IN  <<SubSeq(s, 1, first - 1)>> \o split(SubSeq(s, first + 1, Len(s)), sep)

\* The white space s.trim() removes (of the units in use)
WhiteSpace == {" ", "\n", "\r"}

RECURSIVE trimStart(_)
trimStart(s) == IF s # <<>> /\ Head(s) \in WhiteSpace THEN trimStart(Tail(s)) ELSE s

RECURSIVE trimEnd(_)
trimEnd(s) ==
    IF s # <<>> /\ s[Len(s)] \in WhiteSpace THEN trimEnd(SubSeq(s, 1, Len(s) - 1)) ELSE s

\* s.trim()
trim(s) == trimEnd(trimStart(s))

\* A Map<string, string> is the function from its keys to their values.
EmptyMap == [k \in {} |-> <<>>]

MapSetIfAbsent(map, key, value) ==
    [k \in DOMAIN map \cup {key} |-> IF k \in DOMAIN map THEN map[k] ELSE value]

\* map.set(key, value)
MapSet(map, key, value) ==
    [k \in DOMAIN map \cup {key} |-> IF k = key THEN value ELSE map[k]]

\* One turn of the loop over the lines: `const [code, value] = line.split("#")`
\* takes the first two pieces, the second being undefined when there is none.
parseLine(map, line) ==
    IF Falsy(trim(line))
    THEN map
    ELSE LET pieces == split(line, "#")
             code == pieces[1]
             value == IF Len(pieces) >= 2 THEN Some(pieces[2]) ELSE None
         IN  IF ~Falsy(code) /\ IsSome(value) /\ ~Falsy(Get(value))
             THEN MapSet(map, trim(code), trim(Get(value)))
             ELSE map

RECURSIVE parseLines(_, _)
parseLines(map, lines) ==
    IF lines = <<>> THEN map ELSE parseLines(parseLine(map, Head(lines)), Tail(lines))

parseTableCSV(data) == parseLines(EmptyMap, split(toStringUtf8(data), "\n"))

-----------------------------------------------------------------------------
(* Token encryption                                                        *)

\* Units that are not ASCII: a BMP character (U+00E9, two UTF-8 bytes) and the
\* two halves of a surrogate pair (U+1F600, four UTF-8 bytes as a pair; a lone
\* half is encoded as U+FFFD, three bytes).
NonAsciiBmp == {"U+00E9"}
HighSurrogates == {"U+D83D"}
LowSurrogates == {"U+DE00"}

\* Buffer.from(s, "utf-8").length
RECURSIVE utf8ByteLength(_)
utf8ByteLength(s) ==
    IF s = <<>> THEN 0
    ELSE IF Head(s) \in HighSurrogates /\ Len(s) >= 2 /\ s[2] \in LowSurrogates
         THEN 4 + utf8ByteLength(Tail(Tail(s)))
    ELSE IF Head(s) \in HighSurrogates \cup LowSurrogates
         THEN 3 + utf8ByteLength(Tail(s))
    ELSE IF Head(s) \in NonAsciiBmp
         THEN 2 + utf8ByteLength(Tail(s))
    ELSE 1 + utf8ByteLength(Tail(s))

\* Buffer.from(s, "utf-8"): an ASCII unit is its one byte (written as the
\* unit), U+00E9 is C3 A9, the pair U+D83D U+DE00 (U+1F600) is F0 9F 98 80 and
\* a half of a pair standing alone is replaced by U+FFFD, EF BF BD.
RECURSIVE utf8Encode(_)
utf8Encode(s) ==
    IF s = <<>> THEN <<>>
    ELSE IF Head(s) \in HighSurrogates /\ Len(s) >= 2 /\ s[2] \in LowSurrogates
         THEN <<"F0", "9F", "98", "80">> \o utf8Encode(Tail(Tail(s)))
    ELSE IF Head(s) \in HighSurrogates \cup LowSurrogates
         THEN <<"EF", "BF", "BD">> \o utf8Encode(Tail(s))
    ELSE IF Head(s) \in NonAsciiBmp
         THEN <<"C3", "A9">> \o utf8Encode(Tail(s))
    ELSE <<Head(s)>> \o utf8Encode(Tail(s))

MinApiKeyLength == 48
AesKeyChars == 32
AesKeyBytes == 32
AesIvBytes == 16
AesBlockBytes == 16

ErrApiKey == "API Key must be at least 48 characters for AES encryption"
ErrAesFailed == "AES encryption failed"

Threw(msg) == [threw |-> TRUE, error |-> msg, value |-> <<>>]
Returned(v) == [threw |-> FALSE, error |-> "", value |-> v]

aes256cbcBase64WithoutFinal(key, iv, plaintext) ==
    IF utf8ByteLength(key) # AesKeyBytes \/ utf8ByteLength(iv) # AesIvBytes
    THEN Threw(ErrAesFailed)
    ELSE LET bytes == AesBlockBytes * (utf8ByteLength(plaintext) \div AesBlockBytes)
         IN  Returned([cipher |-> "aes-256-cbc", key |-> key, iv |-> iv,
                       plaintext |-> SubSeq(utf8Encode(plaintext), 1, bytes),
                       base64Length |-> 4 * ((bytes + 2) \div 3)])

\* crypto.createCipheriv("aes-256-cbc", key, iv) followed by update/final with
\* base64 output: it throws unless the key is 32 bytes and the IV 16 bytes;
\* the plaintext is the UTF-8 encoding of the token, PKCS7 pads it to the
\* next whole block, and the ciphertext is rendered as one base64 string.
\* The ciphertext is kept symbolic: under one key and IV it is determined by
\* the plaintext bytes and determines them.
aes256cbcBase64(key, iv, plaintext) ==
    IF utf8ByteLength(key) # AesKeyBytes \/ utf8ByteLength(iv) # AesIvBytes
    THEN Threw(ErrAesFailed)
    ELSE LET bytes == AesBlockBytes * ((utf8ByteLength(plaintext) \div AesBlockBytes) + 1)
         IN  Returned([cipher |-> "aes-256-cbc", key |-> key, iv |-> iv,
                       plaintext |-> utf8Encode(plaintext),
                       base64Length |-> 4 * ((bytes + 2) \div 3)])

encryptAESOffByOne(tokenText, key) ==
    IF Falsy(key) \/ Len(key) < MinApiKeyLength - 1
    THEN Threw(ErrApiKey)
    ELSE aes256cbcBase64(substring(key, 0, AesKeyChars),
                         substring(key, AesKeyChars, MinApiKeyLength), tokenText)

encryptAES(tokenText, key) ==
    IF Falsy(key) \/ Len(key) < MinApiKeyLength
    THEN Threw(ErrApiKey)
    ELSE aes256cbcBase64(substring(key, 0, AesKeyChars),
                         substring(key, AesKeyChars, MinApiKeyLength), tokenText)

-----------------------------------------------------------------------------
(* Inputs of the codec harness                                             *)

SeqsUpTo(S, n) == UNION {[1..k -> S] : k \in 0..n}

PadValues ==
    SeqsUpTo({"a", "b"}, MaxLen)
        \cup {<<"t", "e", "s", "t">>, <<"h", "e", "l", "l", "o", " ", "w", "o", "r", "l", "d">>}
        \cup {<<"U+00E9">>, <<"a", "U+00E9", "b">>, <<"U+D83D", "U+DE00">>,
              <<"a", "U+D83D", "U+DE00">>, <<"U+D83D", "U+DE00", "b", "U+00E9">>}
PadWidths == 0..MaxWidth \cup {5, 10}
PadFills == {<<" ">>, <<"0">>}

NumberValues == 0..MaxNumber \cup {42, 12345, 123456, 999999999, 1000000000}
NumberWidths == 0..MaxWidth \cup {5, 9}

Date(d, m, y, hh, mm) == [date |-> d, month |-> m, fullYear |-> y, hours |-> hh, minutes |-> mm]

\* new Date(2024, 0, 15, 10, 30), new Date(1985, 5, 15), new Date(1990, 11, 25, 23, 59),
\* new Date(2024, 2, 5, 8, 3)
Dates == { Date(15, 0, 2024, 10, 30), Date(15, 5, 1985, 0, 0),
           Date(25, 11, 1990, 23, 59), Date(5, 2, 2024, 8, 3),
           Date(15, 0, 2024, 9, 5), Date(31, 11, 9999, 23, 59) }
         \cup { Date(d, m, y, hh, mm) :
                  d \in {1, 9, 10, 28}, m \in {0, 8, 9, 11}, y \in {1000, 1985, 9999},
                  hh \in {0, 9, 10, 23}, mm \in {0, 9, 10, 59} }

Location(c) == [code |-> c]

\* Location codes: a short one, a full 9-digit one, and one of 10 digits.
Codes == {5, 123456789, 1234567890}

\* createTestDriver() of the test suite
TestDriver ==
    [ surname |-> <<"R", "o", "s", "s", "i">>,
      name |-> <<"M", "a", "r", "i", "o">>,
      birthDate |-> Date(15, 5, 1985, 0, 0),
      birthPlace |-> Location(123456789),
      citizenship |-> Location(100000100),
      residencePlace |-> None,
      residenceAddress |-> None,
      documentType |-> "C",
      documentNumber |-> <<"A", "B", "1", "2", "3", "4", "5", "6", "7">>,
      documentIssuePlace |-> Location(123456789),
      licenseNumber |-> <<"R", "M", "1", "2", "3", "4", "5", "6", "7", "8">>,
      licenseIssuePlace |-> Location(123456789),
      phone |-> None ]

Drivers ==
    { [TestDriver EXCEPT !.surname = s, !.birthPlace = Location(c),
                         !.residencePlace = rp, !.residenceAddress = ra,
                         !.licenseIssuePlace = Location(lc), !.phone = ph] :
        s \in {<<"R", "o", "s", "s", "i">>, Text(50, "x"), Text(51, "x")},
        c \in Codes,
        rp \in {None, Some(Location(111222333))},
        ra \in {None, Some(<<"V", "i", "a", " ", "M", "i", "l", "a", "n", "o", " ", "5", "0">>)},
        lc \in {123456789, 1234567890},
        ph \in {None, Some(<<"+", "3", "9", " ", "0", "6", " ", "1", "2", "3", "4", "5", "6", "7">>), Some(Text(25, "9"))} }

\* createTestContract() of the test suite
TestContract ==
    [ id |-> <<"C", "O", "N", "T", "R", "A", "C", "T", "-", "0", "0", "1">>,
      createdDate |-> Date(15, 0, 2024, 10, 30),
      paymentType |-> "T",
      checkoutDate |-> Date(15, 0, 2024, 11, 0),
      checkoutLocation |-> Location(123456789),
      checkoutAddress |-> <<"V", "i", "a", " ", "d", "e", "l", "l", "'", "A", "e", "r", "o", "p", "o", "r", "t", "o", " ", "1">>,
      checkinDate |-> Date(20, 0, 2024, 18, 0),
      checkinLocation |-> Location(987654321),
      checkinAddress |-> <<"V", "i", "a", " ", "M", "a", "l", "p", "e", "n", "s", "a", " ", "2">>,
      operatorId |-> <<"O", "P", "0", "0", "1">>,
      agency |-> [ id |-> <<"A", "G", "E", "N", "C", "Y", "0", "0", "1">>, name |-> <<"A", "u", "t", "o", "n", "o", "l", "e", "g", "g", "i", "o", " ", "R", "o", "m", "a", " ", "S", "R", "L">>,
                   location |-> Location(123456789),
                   address |-> <<"V", "i", "a", " ", "R", "o", "m", "a", " ", "1", "0", "0">>, phone |-> <<"+", "3", "9", " ", "0", "6", " ", "1", "2", "3", "4", "5", "6", "7">> ],
      vehicle |-> [ type |-> "A", brand |-> <<"F", "i", "a", "t">>, model |-> <<"5", "0", "0">>,
                    plate |-> <<"A", "B", "1", "2", "3", "C", "D">>, color |-> Some(<<"R", "o", "s", "s", "o">>),
                    hasGPS |-> Some(TRUE), hasEngineBlock |-> Some(FALSE) ],
      mainDriver |-> TestDriver,
      secondaryDriver |-> None ]

SecondDriver == [TestDriver EXCEPT !.surname = <<"V", "e", "r", "d", "i">>, !.name = <<"L", "u", "i", "g", "i">>,
                                   !.phone = Some(<<"+", "3", "9", " ", "0", "6", " ", "1", "2", "3", "4", "5", "6", "7">>)]
OverflowDriver == [TestDriver EXCEPT !.birthPlace = Location(1234567890)]

FormatContracts ==
    { [TestContract EXCEPT !.id = i, !.checkoutLocation = Location(c),
                           !.vehicle.color = col, !.vehicle.hasGPS = gps,
                           !.mainDriver = md, !.secondaryDriver = sd] :
        i \in {<<"C", "O", "N", "T", "R", "A", "C", "T", "-", "0", "0", "1">>, Text(51, "x")},
        c \in Codes,
        col \in {None, Some(<<"R", "o", "s", "s", "o">>)},
        gps \in {None, Some(TRUE), Some(FALSE)},
        md \in {TestDriver, OverflowDriver},
        sd \in {None, Some(TestDriver), Some(SecondDriver)} }

SecondaryDrivers ==
    {None} \cup
    { Some([TestDriver EXCEPT !.surname = s, !.name = n, !.documentNumber = d]) :
        s \in {<<>>, <<"V", "e", "r", "d", "i">>}, n \in {<<>>, <<"L", "u", "i", "g", "i">>}, d \in {<<>>, <<"A", "B", "1", "2", "3", "4", "5", "6", "7">>} }

ValidationContracts ==
    { [TestContract EXCEPT !.id = i, !.agency.id = a,
                           !.checkoutAddress = co, !.checkinAddress = ci,
                           !.mainDriver.documentNumber = dn,
                           !.mainDriver.licenseNumber = ln,
                           !.vehicle.plate = pl, !.secondaryDriver = sd] :
        i \in {<<>>, <<"x">>, Text(50, "x"), Text(51, "x")},
        a \in {<<>>, Text(30, "x"), Text(31, "x")},
        co \in {Text(2, "x"), Text(3, "x")},
        ci \in {Text(2, "x"), Text(3, "x")},
        dn \in {Text(4, "x"), Text(5, "x")},
        ln \in {Text(4, "x"), Text(5, "x")},
        pl \in {Text(2, "x"), Text(3, "x")},
        sd \in SecondaryDrivers }

MaxKeyLen == 50

ApiKeys ==
    { Text(n, "k") : n \in 0..MaxKeyLen } \cup
    { Text(100, "k"),
      Text(MinApiKeyLength, "U+00E9"),
      Text(AesKeyChars, "k") \o Text(MinApiKeyLength - AesKeyChars, "U+00E9"),
      Text(MinApiKeyLength, "k") \o <<"U+00E9">> }

Tokens == { <<>>, <<"t", "e", "s", "t", "-", "t", "o", "k", "e", "n">>, Text(16, "t"), <<"t", "U+D83D", "U+DE00">>,
            <<"t", "o", "k", "e", "n", "1">>, <<"t", "o", "k", "e", "n", "2">>,
            <<"t", "U+00E9">>, <<"t", "U+D83D">>, <<"t", "U+DE00">> }

\* Table files: one line or two lines of up to MaxLen bytes out of
\* "a", "b", " " and "#", and the files of the test suite's shape.
CsvLines == SeqsUpTo({97, 98, 32, 35}, MaxLen)

CsvFiles ==
    CsvLines
        \cup {l1 \o <<10>> \o l2 : l1 \in CsvLines, l2 \in CsvLines}
        \cup { <<48, 48, 49, 35, 97, 32, 98, 10, 48, 48, 49, 35, 98, 10>>,
               <<32, 32, 48, 49, 32, 32, 35, 32, 32, 97, 32, 98, 32, 32, 10>>,
               <<48, 49, 35, 97, 10, 10, 48, 48, 35, 98, 13, 10>>,
               <<97, 32, 98, 10, 48, 49, 35, 97, 35, 98, 10>> }

-----------------------------------------------------------------------------
(* The codec harness: a behaviour applies one pure function once, to       *)
(* inputs drawn from the sets above, and records the call and its result.  *)

InitHarness ==
    /\ op = "none"
    /\ arg = <<>>
    /\ out = <<>>

PadStringCall ==
    /\ op = "none"
    /\ \E value \in PadValues, length \in PadWidths, fillChar \in PadFills :
          /\ op' = "padString"
          /\ arg' = [value |-> value, length |-> length, fillChar |-> fillChar]
          /\ out' = padString(value, length, fillChar)
          /\ UNCHANGED <<clientVars, taskVars>>

PadNumberCall ==
    /\ op = "none"
    /\ \E value \in NumberValues, length \in NumberWidths :
          /\ op' = "padNumber"
          /\ arg' = [value |-> value, length |-> length]
          /\ out' = padNumber(value, length)
          /\ UNCHANGED <<clientVars, taskVars>>

FormatDateCall ==
    /\ op = "none"
    /\ \E date \in Dates, withTime \in BOOLEAN :
          /\ op' = "formatDate"
          /\ arg' = [date |-> date, withTime |-> withTime]
          /\ out' = formatDate(date, withTime)
          /\ UNCHANGED <<clientVars, taskVars>>

FormatDriverCall ==
    /\ op = "none"
    /\ \E driver \in Drivers :
          /\ op' = "formatDriver"
          /\ arg' = driver
          /\ out' = formatDriver(driver)
          /\ UNCHANGED <<clientVars, taskVars>>

FormatContractCall ==
    /\ op = "none"
    /\ \E contract \in FormatContracts :
          /\ op' = "formatContract"
          /\ arg' = contract
          /\ out' = formatContract(contract)
          /\ UNCHANGED <<clientVars, taskVars>>

IsValidContractDataCall ==
    /\ op = "none"
    /\ \E contract \in ValidationContracts :
          /\ op' = "isValidContractData"
          /\ arg' = contract
          /\ out' = isValidContractData(contract)
          /\ UNCHANGED <<clientVars, taskVars>>

EncryptAESCall ==
    /\ op = "none"
    /\ \E tokenText \in Tokens, key \in ApiKeys :
          /\ op' = "encryptAES"
          /\ arg' = [token |-> tokenText, apiKey |-> key]
          /\ out' = encryptAES(tokenText, key)
          /\ UNCHANGED <<clientVars, taskVars>>

ParseTableCSVCall ==
    /\ op = "none"
    /\ \E data \in CsvFiles :
          /\ op' = "parseTableCSV"
          /\ arg' = data
          /\ out' = parseTableCSV(data)
          /\ UNCHANGED <<clientVars, taskVars>>

NextCodec ==
    \/ PadStringCall
    \/ PadNumberCall
    \/ FormatDateCall
    \/ FormatDriverCall
    \/ FormatContractCall
    \/ IsValidContractDataCall
    \/ EncryptAESCall
    \/ ParseTableCSVCall

-----------------------------------------------------------------------------
(* CargosClient: token lifecycle, sendContracts and batchSendContracts.    *)
(*                                                                         *)
(* An API call is an async function: it runs without interruption up to    *)
(* its next `await`, where other pending calls may run.  pc[t] names the   *)
(* await at which task t's call is suspended:                              *)
(*   gt_fetch    getToken: await fetch(/api/Token)                         *)
(*   gt_json     getToken: await response.json()                          *)
(*   encrypt     getEncryptedToken: await this.getToken() has resolved     *)
(*   send_fetch  await fetch(...) of the service request: /api/Send of     *)
(*               sendContracts, /api/Check of checkContracts, /api/Tabella *)
(*               of getTable                                               *)
(*   send_json_ok / send_json_err   await response.json() (getTable:       *)
(*               response.arrayBuffer()) of an ok / a not ok response      *)
(*   delay       batchSendContracts: await setTimeout(100)                 *)
(*   returned / threw   the call has settled                               *)

Tasks == 1..NumTasks

chunkSize == 100
MaxPerRequest == 100
SafetyMarginMinutes == 5

ErrToken == "Failed to obtain token"
ErrTooMany == "Maximum 100 contracts per request"
ErrSend == "Send failed"
ErrCheck == "Check failed"
ErrTable == "Table download failed"

\* setTimeout(resolve, 100) of batchSendContracts
BatchDelayMs == 100

\* The delay a caller may want between two chunks: the one the code takes, or
\* a longer one.  batchSendContracts(contracts) has no parameter for it.
PacingChoices == {BatchDelayMs, 250}

\* enum TableId
TableIds == 0..3

\* The access_token of the k-th credential exchange
TokenText(k) == <<"t", "o", "k">> \o Digits(k)

\* expires_date of a token response, issued at time `at`: absent, or a few
\* minutes ahead (less or more than the safety margin).
TokenLifetimes == {3, 7}
ExpiresDates(at) == {None} \cup {Some(at + d) : d \in TokenLifetimes}

\* contracts.slice(start, end)
slice(list, start, end) == SubSeq(list, Min(start, Len(list)) + 1, Min(end, Len(list)))

\* The contract lists calls are made with: n contracts, numbered in order.
ContractList(n) == [k \in 1..n |-> k]

\* Contract number k of a list: createTestContract() under its own id; the
\* even-numbered ones carry a plate of two characters.
ContractAt(k) ==
    [TestContract EXCEPT !.id = <<"C">> \o Digits(k),
                         !.vehicle.plate = IF k % 2 = 0 THEN <<"A", "B">> ELSE @]
BatchSizes == {0, 1, chunkSize - 1, chunkSize, chunkSize + 1, 2 * chunkSize, 250, MaxContracts}
SendSizes == {0, 1, MaxPerRequest, MaxPerRequest + 1}

InitClient ==
    /\ now = 0
    /\ token = None
    /\ tokenExpiry = None
    /\ exchanges = 0
    /\ pc = [t \in Tasks |-> "idle"]
    /\ call = [t \in Tasks |-> "none"]
    /\ tok = [t \in Tasks |-> <<>>]
    /\ hit = [t \in Tasks |-> "none"]
    /\ fetched = [t \in Tasks |-> 0]
    /\ fetchId = [t \in Tasks |-> 0]
    /\ expires = [t \in Tasks |-> None]
    /\ ret = [t \in Tasks |-> <<>>]
    /\ contracts = [t \in Tasks |-> <<>>]
    /\ index = [t \in Tasks |-> 0]
    /\ chunk = [t \in Tasks |-> <<>>]
    /\ results = [t \in Tasks |-> <<>>]
    /\ dispatched = [t \in Tasks |-> <<>>]
    /\ sent = [t \in Tasks |-> <<>>]
    /\ tableId = [t \in Tasks |-> None]
    /\ pacing = [t \in Tasks |-> 0]
    /\ timer = [t \in Tasks |-> 0]

DefaultApiKey == Text(MinApiKeyLength, "k")

Init == InitHarness /\ InitClient /\ apiKey = DefaultApiKey

InitCodec == Init

InitBatch == InitHarness /\ InitClient /\ apiKey \in {DefaultApiKey, Text(MinApiKeyLength - 1, "k")}

cachedTokenValidIgnoringExpiry == IsSome(token) /\ ~Falsy(Get(token))

\* this.token && this.tokenExpiry && new Date() < this.tokenExpiry
cachedTokenValid ==
    /\ IsSome(token) /\ ~Falsy(Get(token))
    /\ IsSome(tokenExpiry)
    /\ now < Get(tokenExpiry)

\* Where a call continues once getToken() has handed back a token.
AfterToken(c) == IF c = "getToken" THEN "returned" ELSE "encrypt"

\* getToken() up to its first await, on behalf of API call c: the cached token
\* is returned, or the credential exchange is issued.
GetTokenSync(t, c) ==
    IF cachedTokenValid
    THEN /\ pc' = [pc EXCEPT ![t] = AfterToken(c)]
         /\ tok' = [tok EXCEPT ![t] = Get(token)]
         /\ hit' = [hit EXCEPT ![t] = "hit"]
         /\ ret' = [ret EXCEPT ![t] = IF c = "getToken" THEN Get(token) ELSE <<>>]
         /\ UNCHANGED <<exchanges, fetched, fetchId, expires>>
    ELSE /\ exchanges < MaxExchanges
         /\ pc' = [pc EXCEPT ![t] = "gt_fetch"]
         /\ hit' = [hit EXCEPT ![t] = "miss"]
         /\ exchanges' = exchanges + 1
         /\ fetched' = [fetched EXCEPT ![t] = @ + 1]
         /\ fetchId' = [fetchId EXCEPT ![t] = exchanges + 1]
         /\ ret' = [ret EXCEPT ![t] = <<>>]
         /\ UNCHANGED <<tok, expires>>

\* client.getToken()
CallGetToken(t) ==
    /\ pc[t] = "idle"
    /\ call' = [call EXCEPT ![t] = "getToken"]
    /\ GetTokenSync(t, "getToken")
    /\ UNCHANGED <<codecVars, now, apiKey, token, tokenExpiry, sendTaskVars>>

TokenExchangeFailsRetrying(t) ==
    /\ pc[t] \in {"gt_fetch", "gt_json"}
    /\ exchanges < MaxExchanges
    /\ pc' = [pc EXCEPT ![t] = "gt_fetch"]
    /\ exchanges' = exchanges + 1
    /\ fetched' = [fetched EXCEPT ![t] = @ + 1]
    /\ fetchId' = [fetchId EXCEPT ![t] = exchanges + 1]
    /\ UNCHANGED <<codecVars, now, apiKey, token, tokenExpiry, call, ret,
                   tok, hit, expires, sendTaskVars>>

\* The fetch of /api/Token rejects, the response is not ok, or its body cannot
\* be read: getToken throws, and so does the call that awaited it.
TokenExchangeFails(t) ==
    /\ pc[t] \in {"gt_fetch", "gt_json"}
    /\ pc' = [pc EXCEPT ![t] = "threw"]
    /\ ret' = [ret EXCEPT ![t] = ErrToken]
    /\ UNCHANGED <<codecVars, clientVars, call, tokenTaskVars, sendTaskVars>>

\* The fetch of /api/Token resolves with an ok response.
TokenResponseOk(t) ==
    /\ pc[t] = "gt_fetch"
    /\ pc' = [pc EXCEPT ![t] = "gt_json"]
    /\ UNCHANGED <<codecVars, clientVars, call, ret, tokenTaskVars, sendTaskVars>>

safeExpiryNoMargin(expiresDate) == expiresDate

\* expiry.setMinutes(expiry.getMinutes() - 5)
safeExpiry(expiresDate) == expiresDate - SafetyMarginMinutes

\* response.json() resolves: the token is stored, the expiry too when the
\* response carries one, and getToken returns this.token.
TokenBodyRead(t) ==
    /\ pc[t] = "gt_json"
    /\ \E expiresDate \in ExpiresDates(now) :
          /\ token' = Some(TokenText(fetchId[t]))
          /\ tokenExpiry' = IF IsSome(expiresDate) THEN Some(safeExpiry(Get(expiresDate)))
                            ELSE tokenExpiry
          /\ expires' = [expires EXCEPT ![t] = expiresDate]
    /\ tok' = [tok EXCEPT ![t] = TokenText(fetchId[t])]
    /\ pc' = [pc EXCEPT ![t] = AfterToken(call[t])]
    /\ ret' = [ret EXCEPT ![t] = IF call[t] = "getToken" THEN TokenText(fetchId[t]) ELSE <<>>]
    /\ UNCHANGED <<codecVars, now, apiKey, exchanges, call, hit, fetched, fetchId, sendTaskVars>>

SendContractsSyncOffByOne(t, list, c) ==
    /\ chunk' = [chunk EXCEPT ![t] = list]
    /\ dispatched' = [dispatched EXCEPT ![t] = Append(@, list)]
    /\ IF Len(list) >= MaxPerRequest
       THEN /\ pc' = [pc EXCEPT ![t] = "threw"]
            /\ ret' = [ret EXCEPT ![t] = ErrTooMany]
            /\ UNCHANGED <<exchanges, tokenTaskVars>>
       ELSE GetTokenSync(t, c)

\* sendContracts(list) up to its first await, on behalf of API call c.
SendContractsSync(t, list, c) ==
    /\ chunk' = [chunk EXCEPT ![t] = list]
    /\ dispatched' = [dispatched EXCEPT ![t] = Append(@, list)]
    /\ IF Len(list) > MaxPerRequest
       THEN /\ pc' = [pc EXCEPT ![t] = "threw"]
            /\ ret' = [ret EXCEPT ![t] = ErrTooMany]
            /\ UNCHANGED <<exchanges, tokenTaskVars>>
       ELSE GetTokenSync(t, c)

\* client.sendContracts(list)
CallSendContracts(t) ==
    /\ pc[t] = "idle"
    /\ \E n \in SendSizes :
          /\ contracts' = [contracts EXCEPT ![t] = ContractList(n)]
          /\ SendContractsSync(t, ContractList(n), "sendContracts")
    /\ call' = [call EXCEPT ![t] = "sendContracts"]
    /\ UNCHANGED <<codecVars, now, apiKey, token, tokenExpiry, index, results, sent,
                   tableId, pacing, timer>>

\* client.checkContracts(list): like sendContracts, with no limit on the list.
CallCheckContracts(t) ==
    /\ pc[t] = "idle"
    /\ call' = [call EXCEPT ![t] = "checkContracts"]
    /\ \E n \in SendSizes :
          /\ contracts' = [contracts EXCEPT ![t] = ContractList(n)]
          /\ chunk' = [chunk EXCEPT ![t] = ContractList(n)]
    /\ GetTokenSync(t, "checkContracts")
    /\ UNCHANGED <<codecVars, now, apiKey, token, tokenExpiry, index, results,
                   dispatched, sent, tableId, pacing, timer>>

\* client.getTable(tableId)
CallGetTable(t) ==
    /\ pc[t] = "idle"
    /\ call' = [call EXCEPT ![t] = "getTable"]
    /\ \E id \in TableIds : tableId' = [tableId EXCEPT ![t] = Some(id)]
    /\ GetTokenSync(t, "getTable")
    /\ UNCHANGED <<codecVars, now, apiKey, token, tokenExpiry, contracts, index,
                   chunk, results, dispatched, sent, pacing, timer>>

chunkOfOneTooMany(list, start) == slice(list, start, start + chunkSize + 1)

\* contracts.slice(i, i + chunkSize)
chunkOf(list, start) == slice(list, start, start + chunkSize)

\* client.batchSendContracts(list): an empty list returns at once, otherwise
\* the first chunk is handed to sendContracts.
CallBatchSendContracts(t) ==
    /\ pc[t] = "idle"
    /\ call' = [call EXCEPT ![t] = "batchSendContracts"]
    /\ \E wanted \in PacingChoices : pacing' = [pacing EXCEPT ![t] = wanted]
    /\ \E n \in BatchSizes :
          /\ contracts' = [contracts EXCEPT ![t] = ContractList(n)]
          /\ IF 0 < n
             THEN SendContractsSync(t, chunkOf(ContractList(n), 0), "batchSendContracts")
             ELSE /\ pc' = [pc EXCEPT ![t] = "returned"]
                  /\ ret' = [ret EXCEPT ![t] = <<>>]
                  /\ UNCHANGED <<exchanges, tokenTaskVars, chunk, dispatched>>
    /\ UNCHANGED <<codecVars, now, apiKey, token, tokenExpiry, index, results, sent,
                   tableId, timer>>

\* The request a call issues: its path, the Authorization header
\* (`Bearer ${encryptedToken}`) and its body, JSON.stringify(formattedRecords),
\* kept as the list of the contracts whose records it holds.
RequestOf(c, credentials, list, table) ==
    [ path |-> CASE c = "checkContracts" -> "/api/Check"
                 [] c = "getTable" -> "/api/Tabella?TabellaIdentificativo="
                 [] OTHER -> "/api/Send",
      tableId |-> IF c = "getTable" THEN table ELSE None,
      authorization |-> [scheme |-> "Bearer", credentials |-> credentials],
      body |-> IF c = "getTable" THEN <<>> ELSE list ]

\* getEncryptedToken resumes with the token: it is encrypted, the records are
\* formatted and the request is issued; a key that cannot be used throws.
\* A client that kept the ciphertext of its first token for later requests
EncryptAndPostCachedCiphertext(t) ==
    /\ pc[t] = "encrypt"
    /\ IF encryptAES(TokenText(1), apiKey).threw
       THEN /\ pc' = [pc EXCEPT ![t] = "threw"]
            /\ ret' = [ret EXCEPT ![t] = encryptAES(TokenText(1), apiKey).error]
            /\ UNCHANGED sent
       ELSE /\ pc' = [pc EXCEPT ![t] = "send_fetch"]
            /\ sent' = [sent EXCEPT ![t] =
                           Append(@, RequestOf(call[t], encryptAES(TokenText(1), apiKey).value,
                                               chunk[t], tableId[t]))]
            /\ UNCHANGED ret
    /\ UNCHANGED <<codecVars, clientVars, call, tokenTaskVars,
                   contracts, index, chunk, results, dispatched, tableId, pacing, timer>>

EncryptAndPostPlainToken(t) ==
    /\ pc[t] = "encrypt"
    /\ pc' = [pc EXCEPT ![t] = "send_fetch"]
    /\ sent' = [sent EXCEPT ![t] =
                   Append(@, RequestOf(call[t], [cipher |-> "none", plaintext |-> tok[t]],
                                       chunk[t], tableId[t]))]
    /\ UNCHANGED <<codecVars, clientVars, call, ret, tokenTaskVars,
                   contracts, index, chunk, results, dispatched, tableId, pacing, timer>>

EncryptAndPostWithoutAwait(t) ==
    /\ pc[t] = "encrypt"
    /\ ~encryptAES(tok[t], apiKey).threw
    /\ pc' = [pc EXCEPT ![t] = "send_fetch"]
    /\ LET credentials == encryptAES(tok[t], apiKey).value
           this == RequestOf(call[t], credentials, chunk[t], tableId[t])
           next == RequestOf(call[t], credentials,
                             chunkOf(contracts[t], index[t] + chunkSize), tableId[t])
       IN  sent' = [sent EXCEPT ![t] =
                       IF call[t] = "batchSendContracts"
                              /\ index[t] + chunkSize < Len(contracts[t])
                       THEN Append(Append(@, this), next)
                       ELSE Append(@, this)]
    /\ UNCHANGED <<codecVars, clientVars, call, ret, tokenTaskVars,
                   contracts, index, chunk, results, dispatched, tableId, pacing, timer>>

EncryptAndPost(t) ==
    /\ pc[t] = "encrypt"
    /\ IF encryptAES(tok[t], apiKey).threw
       THEN /\ pc' = [pc EXCEPT ![t] = "threw"]
            /\ ret' = [ret EXCEPT ![t] = encryptAES(tok[t], apiKey).error]
            /\ UNCHANGED sent
       ELSE /\ pc' = [pc EXCEPT ![t] = "send_fetch"]
            /\ sent' = [sent EXCEPT ![t] =
                           Append(@, RequestOf(call[t], encryptAES(tok[t], apiKey).value,
                                               chunk[t], tableId[t]))]
            /\ UNCHANGED ret
    /\ UNCHANGED <<codecVars, clientVars, call, tokenTaskVars,
                   contracts, index, chunk, results, dispatched, tableId, pacing, timer>>

\* The error a call throws when its request fails
RequestError(c) ==
    CASE c = "checkContracts" -> ErrCheck
      [] c = "getTable" -> ErrTable
      [] OTHER -> ErrSend

\* The fetch of the request rejects, or the body of its response cannot be read.
SendFails(t) ==
    /\ pc[t] \in {"send_fetch", "send_json_ok", "send_json_err"}
    /\ pc' = [pc EXCEPT ![t] = "threw"]
    /\ ret' = [ret EXCEPT ![t] = RequestError(call[t])]
    /\ UNCHANGED <<codecVars, clientVars, call, tokenTaskVars, sendTaskVars>>

\* The fetch of the request resolves, with an ok response or not.
SendResponds(t) ==
    /\ pc[t] = "send_fetch"
    /\ \E ok \in BOOLEAN :
          pc' = [pc EXCEPT ![t] = IF ok THEN "send_json_ok" ELSE "send_json_err"]
    /\ UNCHANGED <<codecVars, clientVars, call, ret, tokenTaskVars, sendTaskVars>>

\* A method that returned the body of every response as data
SendResponseOfIgnoringStatus(label) ==
    [responses |-> <<IF label = "send_json_ok" THEN "TraceResponse" ELSE "ErrorResponse">>,
     error |-> None]

\* What checkContracts and sendContracts return: the body of an ok response
\* as the responses (an array of TraceResponse), the body of any other as the
\* error beside no responses.
SendResponseOf(label) ==
    IF label = "send_json_ok"
    THEN [responses |-> <<"TraceResponse">>, error |-> None]
    ELSE [responses |-> <<>>, error |-> Some("ErrorResponse")]

\* The file names a table response may carry in its content-disposition
\* header (`filename=` followed by the name): none, an empty one, or a name.
TableFileNames == {None, Some(<<>>), Some(<<"l", "u", "o", "g", "h", "i", ".", "c", "s", "v">>)}

\* What getTable returns: the error of a response that is not ok, or the file
\* under the name the header gives, `table_${tableId}.csv` when it gives none.
TableResponseOf(label, id, header) ==
    IF label = "send_json_ok"
    THEN [esito |-> TRUE,
          filename |-> IF IsSome(header) /\ ~Falsy(Get(header))
                       THEN Get(header)
                       ELSE <<"t", "a", "b", "l", "e", "_">> \o String(id)
                                \o <<".", "c", "s", "v">>,
          file |-> "Buffer",
          error |-> None]
    ELSE [esito |-> FALSE, filename |-> <<>>, file |-> "", error |-> Some("ErrorResponse")]

\* A batch that stopped at the first chunk answered with an error
SendReturnsStoppingOnError(t) ==
    /\ pc[t] \in {"send_json_ok", "send_json_err"}
    /\ IF call[t] \in {"sendContracts", "checkContracts"}
       THEN /\ pc' = [pc EXCEPT ![t] = "returned"]
            /\ ret' = [ret EXCEPT ![t] = SendResponseOf(pc[t])]
            /\ UNCHANGED <<index, results, timer>>
       ELSE IF call[t] = "getTable"
       THEN /\ pc' = [pc EXCEPT ![t] = "returned"]
            /\ \E header \in TableFileNames :
                  ret' = [ret EXCEPT ![t] = TableResponseOf(pc[t], Get(tableId[t]), header)]
            /\ UNCHANGED <<index, results, timer>>
       ELSE /\ results' = [results EXCEPT ![t] = Append(@, SendResponseOf(pc[t]))]
            /\ IF index[t] + chunkSize < Len(contracts[t]) /\ pc[t] = "send_json_ok"
               THEN /\ pc' = [pc EXCEPT ![t] = "delay"]
                    /\ timer' = [timer EXCEPT ![t] = BatchDelayMs]
                    /\ UNCHANGED <<index, ret>>
               ELSE /\ index' = [index EXCEPT ![t] = @ + chunkSize]
                    /\ pc' = [pc EXCEPT ![t] = "returned"]
                    /\ ret' = [ret EXCEPT ![t] = results'[t]]
                    /\ UNCHANGED timer
    /\ UNCHANGED <<codecVars, clientVars, call, tokenTaskVars,
                   contracts, chunk, dispatched, sent, tableId, pacing>>

\* The body of the response has been read and the request's method returns.
\* In a batch the result is pushed; then the loop waits before the next
\* chunk, or ends.
SendReturns(t) ==
    /\ pc[t] \in {"send_json_ok", "send_json_err"}
    /\ IF call[t] \in {"sendContracts", "checkContracts"}
       THEN /\ pc' = [pc EXCEPT ![t] = "returned"]
            /\ ret' = [ret EXCEPT ![t] = SendResponseOf(pc[t])]
            /\ UNCHANGED <<index, results, timer>>
       ELSE IF call[t] = "getTable"
       THEN /\ pc' = [pc EXCEPT ![t] = "returned"]
            /\ \E header \in TableFileNames :
                  ret' = [ret EXCEPT ![t] = TableResponseOf(pc[t], Get(tableId[t]), header)]
            /\ UNCHANGED <<index, results, timer>>
       ELSE /\ results' = [results EXCEPT ![t] = Append(@, SendResponseOf(pc[t]))]
            /\ IF index[t] + chunkSize < Len(contracts[t])
               THEN /\ pc' = [pc EXCEPT ![t] = "delay"]
                    /\ timer' = [timer EXCEPT ![t] = BatchDelayMs]
                    /\ UNCHANGED <<index, ret>>
               ELSE /\ index' = [index EXCEPT ![t] = @ + chunkSize]
                    /\ pc' = [pc EXCEPT ![t] = "returned"]
                    /\ ret' = [ret EXCEPT ![t] = results'[t]]
                    /\ UNCHANGED timer
    /\ UNCHANGED <<codecVars, clientVars, call, tokenTaskVars,
                   contracts, chunk, dispatched, sent, tableId, pacing>>

\* The delay between two requests has elapsed: i += chunkSize and the next
\* chunk is handed to sendContracts.
DelayElapsed(t) ==
    /\ pc[t] = "delay"
    /\ timer' = [timer EXCEPT ![t] = 0]
    /\ index' = [index EXCEPT ![t] = @ + chunkSize]
    /\ SendContractsSync(t, chunkOf(contracts[t], index[t] + chunkSize), "batchSendContracts")
    /\ UNCHANGED <<codecVars, now, apiKey, token, tokenExpiry, call,
                   contracts, results, sent, tableId, pacing>>

\* The caller has taken the outcome of its call; the task may call again.
Settle(t) ==
    /\ pc[t] \in {"returned", "threw"}
    /\ pc' = [pc EXCEPT ![t] = "idle"]
    /\ call' = [call EXCEPT ![t] = "none"]
    /\ ret' = [ret EXCEPT ![t] = <<>>]
    /\ tok' = [tok EXCEPT ![t] = <<>>]
    /\ hit' = [hit EXCEPT ![t] = "none"]
    /\ fetched' = [fetched EXCEPT ![t] = 0]
    /\ fetchId' = [fetchId EXCEPT ![t] = 0]
    /\ expires' = [expires EXCEPT ![t] = None]
    /\ contracts' = [contracts EXCEPT ![t] = <<>>]
    /\ index' = [index EXCEPT ![t] = 0]
    /\ chunk' = [chunk EXCEPT ![t] = <<>>]
    /\ results' = [results EXCEPT ![t] = <<>>]
    /\ dispatched' = [dispatched EXCEPT ![t] = <<>>]
    /\ sent' = [sent EXCEPT ![t] = <<>>]
    /\ tableId' = [tableId EXCEPT ![t] = None]
    /\ pacing' = [pacing EXCEPT ![t] = 0]
    /\ timer' = [timer EXCEPT ![t] = 0]
    /\ UNCHANGED <<codecVars, clientVars>>

\* Time passes.
Tick ==
    /\ now < MaxTime
    /\ now' = now + 1
    /\ UNCHANGED <<codecVars, apiKey, token, tokenExpiry, exchanges, taskVars>>

\* Token lifecycle: concurrent callers of getToken().
Next ==
    \/ \E t \in Tasks : CallGetToken(t)
    \/ \E t \in Tasks : TokenExchangeFails(t)
    \/ \E t \in Tasks : TokenResponseOk(t)
    \/ \E t \in Tasks : TokenBodyRead(t)
    \/ \E t \in Tasks : Settle(t)
    \/ Tick

Spec == Init /\ [][Next]_vars

\* The service calls: one caller of getToken(), checkContracts(),
\* sendContracts(), batchSendContracts() and getTable().
Sender == CHOOSE t \in Tasks : \A u \in Tasks : t <= u

NextBatch ==
    \/ CallGetToken(Sender)
    \/ CallCheckContracts(Sender)
    \/ CallSendContracts(Sender)
    \/ CallGetTable(Sender)
    \/ CallBatchSendContracts(Sender)
    \/ TokenExchangeFails(Sender)
    \/ TokenResponseOk(Sender)
    \/ TokenBodyRead(Sender)
    \/ EncryptAndPost(Sender)
    \/ SendFails(Sender)
    \/ SendResponds(Sender)
    \/ SendReturns(Sender)
    \/ DelayElapsed(Sender)
    \/ Settle(Sender)
    \/ Tick

SpecBatch == InitBatch /\ [][NextBatch]_vars

SpecCodec == InitCodec /\ [][NextCodec]_vars

-----------------------------------------------------------------------------
(* Declared layout of the record (the widths the field comments declare)   *)

DriverFieldWidths == <<50, 30, 10, 9, 9, 9, 150, 5, 20, 9, 20, 9, 20>>

ContractFieldWidths ==
    <<50, 16, 1, 16, 9, 150, 16, 9, 150, 50, 30, 70, 9, 150, 20, 1, 50, 100, 15, 50, 1, 1>>

DriverBlockWidth == 350

RECURSIVE SumTo(_, _)
SumTo(widths, n) == IF n = 0 THEN 0 ELSE SumTo(widths, n - 1) + widths[n]

\* The 0-based offset at which field i starts
Offset(widths, i) == SumTo(widths, i - 1)

\* record.substring(from, from + width) = piece
SliceIs(record, from, width, piece) ==
    /\ from + width <= Len(record)
    /\ SubSeq(record, from + 1, from + width) = piece

-----------------------------------------------------------------------------
(* Claims about the codec (checked under SpecCodec)                        *)

\* C1: the record formatContract produces has the same total length whether
\* the secondary driver is present or absent (the filler is as wide as one
\* driver block).
C1_SameLengthWithAndWithoutSecondary ==
    op = "formatContract" =>
        \A sd \in {None, Some(TestDriver)} :
            Len(formatContract([arg EXCEPT !.secondaryDriver = sd])) = Len(out)

\* C2: in every driver block and every record each field occupies exactly its
\* declared width, so every later field starts at its fixed offset, for all
\* inputs including location codes of any magnitude.
C2_FieldsAtDeclaredOffsets ==
    /\ op = "formatDriver" =>
          \A i \in DOMAIN DriverFieldWidths :
              SliceIs(out, Offset(DriverFieldWidths, i), DriverFieldWidths[i],
                      driverPieces(arg)[i])
    /\ op = "formatContract" =>
          /\ \A i \in DOMAIN ContractFieldWidths :
                 SliceIs(out, Offset(ContractFieldWidths, i), ContractFieldWidths[i],
                         contractPieces(arg)[i])
          /\ \A i \in DOMAIN DriverFieldWidths :
                 SliceIs(out,
                         Offset(ContractFieldWidths, Len(ContractFieldWidths) + 1)
                             + Offset(DriverFieldWidths, i),
                         DriverFieldWidths[i], driverPieces(arg.mainDriver)[i])

LocationCodes(driver) ==
    { driver.birthPlace.code, driver.citizenship.code,
      driver.documentIssuePlace.code, driver.licenseIssuePlace.code }
    \cup (IF IsSome(driver.residencePlace) THEN {Get(driver.residencePlace).code} ELSE {})

\* Every location code has at most 9 decimal digits.
ValidDriver(driver) == \A c \in LocationCodes(driver) : c >= 0 /\ c <= 999999999

\* C3: for every valid driver formatDriver returns a block of 350 characters,
\* whichever optional fields are present and however long the text fields are.
C3_DriverBlockIs350 ==
    (op = "formatDriver" /\ ValidDriver(arg)) => Len(out) = DriverBlockWidth

C3_Witness ==
    /\ op = "formatDriver"
    /\ ValidDriver(arg)
    /\ arg.residencePlace = None
    /\ arg.residenceAddress = None
    /\ arg.phone = Some(Text(25, "9"))
    /\ Len(arg.surname) > 50
    /\ Len(out) = DriverBlockWidth

Count(seq, x) == Cardinality({i \in DOMAIN seq : seq[i] = x})

\* The rules of the validation gate, as the specification lists them.
ViolatedRules(contract) ==
    { m \in { ErrContractId, ErrAgencyId, ErrCheckoutAddress, ErrCheckinAddress,
              ErrDocumentNumber, ErrLicenseNumber, ErrVehiclePlate, ErrSecondaryDriver } :
        \/ m = ErrContractId /\ Len(contract.id) \notin 1..50
        \/ m = ErrAgencyId /\ Len(contract.agency.id) \notin 1..30
        \/ m = ErrCheckoutAddress /\ Len(contract.checkoutAddress) < 3
        \/ m = ErrCheckinAddress /\ Len(contract.checkinAddress) < 3
        \/ m = ErrDocumentNumber /\ Len(contract.mainDriver.documentNumber) < 5
        \/ m = ErrLicenseNumber /\ Len(contract.mainDriver.licenseNumber) < 5
        \/ m = ErrVehiclePlate /\ Len(contract.vehicle.plate) < 3
        \/ /\ m = ErrSecondaryDriver
           /\ contract.secondaryDriver # None
           /\ \E f \in { contract.secondaryDriver[1].surname,
                         contract.secondaryDriver[1].name,
                         contract.secondaryDriver[1].documentNumber } : f = <<>> }

\* C7: isValidContractData returns exactly one violation for each violated
\* rule and nothing else, without short-circuiting; the list is empty if and
\* only if no rule is violated.
C7_OneViolationPerViolatedRule ==
    op = "isValidContractData" =>
        /\ \A i \in DOMAIN out : out[i] \in ViolatedRules(arg)
        /\ \A m \in ViolatedRules(arg) : Count(out, m) = 1
        /\ Len(out) = Cardinality(ViolatedRules(arg))
        /\ (out = <<>>) <=> (ViolatedRules(arg) = {})

C7_Witness ==
    /\ op = "isValidContractData"
    /\ Cardinality(ViolatedRules(arg)) = 8
    /\ Len(out) = 8

KeyMaterialError(result) == result.threw /\ result.error = ErrApiKey
NonEmptyCiphertext(result) == ~result.threw /\ result.value.base64Length > 0

\* C8 (as claimed): encryptAES fails with the key-material error for every key
\* shorter than 48 characters and succeeds, returning a non-empty ciphertext,
\* for every key of 48 or more characters.
C8_Original ==
    op = "encryptAES" =>
        IF Len(arg.apiKey) < 48 THEN KeyMaterialError(out) ELSE NonEmptyCiphertext(out)

AsciiUpTo(s, n) ==
    \A i \in 1..n : s[i] \notin NonAsciiBmp \cup HighSurrogates \cup LowSurrogates

\* C8 (amended): encryptAES fails with the key-material error for every key
\* shorter than 48 characters; for a key of 48 or more characters it succeeds,
\* returning a non-empty ciphertext, exactly when the first 48 characters are
\* all ASCII, and otherwise fails with the "AES encryption failed" error.
C8_KeyLengthGate ==
    op = "encryptAES" =>
        IF Len(arg.apiKey) < 48 THEN KeyMaterialError(out)
        ELSE IF AsciiUpTo(arg.apiKey, 48) THEN NonEmptyCiphertext(out)
        ELSE out.threw /\ out.error = ErrAesFailed

C8_Witness ==
    /\ op = "encryptAES"
    /\ Len(arg.apiKey) = 48
    /\ AsciiUpTo(arg.apiKey, 48)
    /\ arg.token = <<"t", "e", "s", "t", "-", "t", "o", "k", "e", "n">>
    /\ NonEmptyCiphertext(out)

\* C9: padString returns exactly `length` characters: the first `length`
\* characters of the value when it is longer (silent truncation), otherwise
\* the value followed by copies of the fill; a value of exactly `length`
\* characters is returned unchanged.
C9_PadStringExactWidth ==
    op = "padString" =>
        LET v == arg.value
            w == arg.length
        IN  /\ Len(out) = w
            /\ Len(v) > w => \A i \in 1..w : out[i] = v[i]
            /\ Len(v) <= w =>
                  /\ \A i \in 1..Len(v) : out[i] = v[i]
                  /\ \A i \in (Len(v) + 1)..w : out[i] = arg.fillChar[1]
            /\ Len(v) = w => out = v

C9_Witness ==
    /\ op = "padString"
    /\ arg.value = <<"h", "e", "l", "l", "o", " ", "w", "o", "r", "l", "d">>
    /\ arg.length = 5
    /\ out = <<"h", "e", "l", "l", "o">>

DigitValue(c) == CHOOSE d \in 0..9 : DigitChars[d + 1] = c

RECURSIVE ParseNat(_)
ParseNat(s) ==
    IF s = <<>> THEN 0 ELSE 10 * ParseNat(SubSeq(s, 1, Len(s) - 1)) + DigitValue(s[Len(s)])

RECURSIVE NumDigits(_)
NumDigits(n) == IF n < 10 THEN 1 ELSE 1 + NumDigits(n \div 10)

\* C10: for a non-negative integer padNumber returns its decimal digits
\* left-padded with '0' to `length`, or unchanged (never truncated) when they
\* do not fit: the output has max(length, number of digits) characters.
C10_PadNumberNeverTruncates ==
    op = "padNumber" =>
        /\ Len(out) = Max(arg.length, NumDigits(arg.value))
        /\ \A i \in DOMAIN out : out[i] \in {DigitChars[d] : d \in DOMAIN DigitChars}
        /\ ParseNat(out) = arg.value

C10_Witness ==
    /\ op = "padNumber"
    /\ arg.value = 123456
    /\ arg.length = 5
    /\ out = <<"1", "2", "3", "4", "5", "6">>

-----------------------------------------------------------------------------
(* Claims about the token lifecycle (checked under Spec)                   *)

\* The exchanges in flight: issued and not yet answered or failed.
OutstandingExchanges == {t \in Tasks : pc[t] \in {"gt_fetch", "gt_json"}}

\* C4: concurrent getToken() calls that find no valid cached token converge
\* on a single in-flight refresh: at most one credential exchange is
\* outstanding at every moment.
C4_SingleInFlightRefresh == Cardinality(OutstandingExchanges) <= 1

\* Unset: no token cached.  Valid: a token and an expiry still ahead.
\* Expired: a token that the cache check no longer accepts.
TokenStateOf(tk, ex, n) ==
    IF tk = None THEN "Unset"
    ELSE IF ex # None /\ n < ex[1] THEN "Valid"
    ELSE "Expired"

TokenState == TokenStateOf(token, tokenExpiry, now)

\* What one step of a getToken() call does: a call made while the token is
\* Valid returns the cached value at once with no exchange; any other call
\* issues one exchange; a call never issues a second one; when the exchange
\* completes the new token is stored and returned.
C5_CallSteps ==
    \A t \in Tasks :
        /\ (pc[t] = "idle" /\ pc'[t] # "idle") =>
              IF TokenState = "Valid"
              THEN /\ pc'[t] = "returned"
                   /\ ret'[t] = token[1]
                   /\ exchanges' = exchanges
                   /\ token' = token /\ tokenExpiry' = tokenExpiry
              ELSE /\ pc'[t] = "gt_fetch"
                   /\ exchanges' = exchanges + 1
                   /\ fetched'[t] = 1
        /\ pc[t] # "idle" => (fetched'[t] = fetched[t] \/ pc'[t] = "idle")
        /\ (pc[t] = "gt_json" /\ pc'[t] = "returned") =>
              /\ fetched[t] = 1
              /\ ret'[t] = TokenText(fetchId[t])
              /\ token' = Some(ret'[t])

TokenStateMove == <<TokenState, TokenStateOf(token', tokenExpiry', now')>>

\* C5 (as claimed): getToken() serves a cached token with no network call
\* while now < expiresAt, otherwise performs exactly one exchange, stores the
\* new token and returns it; the token state only moves
\* Unset -> Valid -> Expired -> Valid.
C5_Original ==
    [][ /\ C5_CallSteps
        /\ \/ TokenStateMove[1] = TokenStateMove[2]
           \/ TokenStateMove \in { <<"Unset", "Valid">>, <<"Valid", "Expired">>,
                                  <<"Expired", "Valid">> } ]_vars

\* C5 (amended): as claimed, except that the first stored token may be
\* Expired at once (the response carried no expiry date, or one not more than
\* 5 minutes ahead): the state moves Unset -> Valid or Unset -> Expired, then
\* only between Valid and Expired, and never back to Unset.
C5_TokenLifecycle ==
    [][ /\ C5_CallSteps
        /\ \/ TokenStateMove[1] = TokenStateMove[2]
           \/ TokenStateMove \in { <<"Unset", "Valid">>, <<"Unset", "Expired">>,
                                  <<"Valid", "Expired">>, <<"Expired", "Valid">> } ]_vars

\* A second exchange has refreshed the token and a later call is served from
\* the cache.
C5_Witness ==
    \E t \in Tasks :
        /\ pc[t] = "returned"
        /\ hit[t] = "hit"
        /\ ret[t] = TokenText(2)
        /\ TokenState = "Valid"
        /\ exchanges = 2

-----------------------------------------------------------------------------
(* Claims about the batch chunker (checked under SpecBatch)                *)

CeilDiv(n, d) == (n + d - 1) \div d

Sizes(lists) == [k \in DOMAIN lists |-> Len(lists[k])]

\* C6: batchSendContracts hands the list to sendContracts in chunks of 100,
\* in order: every chunk has 1..100 contracts, only the last of the
\* ceil(n/100) chunks may have fewer than 100, the chunks dispatched so far
\* concatenate to a prefix of the list, and when the call returns they are
\* ceil(n/100) chunks that concatenate to the whole list (250 contracts:
\* 100, 100, 50).
C6_ChunksPartitionTheList ==
    \A t \in Tasks :
        call[t] = "batchSendContracts" =>
            LET d == dispatched[t]
                n == Len(contracts[t])
                all == Concat(d)
            IN  /\ Len(d) <= CeilDiv(n, 100)
                /\ \A k \in DOMAIN d :
                       /\ Len(d[k]) \in 1..100
                       /\ k < CeilDiv(n, 100) => Len(d[k]) = 100
                /\ Len(all) <= n
                /\ \A k \in DOMAIN all : all[k] = contracts[t][k]
                /\ pc[t] = "returned" =>
                       /\ Len(d) = CeilDiv(n, 100)
                       /\ all = contracts[t]
                       /\ n = 250 => Sizes(d) = <<100, 100, 50>>

C6_Witness ==
    /\ call[Sender] = "batchSendContracts"
    /\ pc[Sender] = "returned"
    /\ Len(contracts[Sender]) = 250
    /\ Sizes(dispatched[Sender]) = <<100, 100, 50>>
    /\ Len(results[Sender]) = 3

-----------------------------------------------------------------------------
(* Further claims about the codec (checked under SpecCodec)                *)

\* The declared width of a numeric code field
CodeWidth == 9

\* Every piece of the record, in order: the contract fields, the main
\* driver's fields and the secondary driver's fields (or the padding).
recordPieces(contract) ==
    contractPieces(contract)
        \o driverPieces(contract.mainDriver)
        \o (IF IsSome(contract.secondaryDriver)
            THEN driverPieces(Get(contract.secondaryDriver))
            ELSE <<secondaryPiece(contract)>>)

\* The positions, among the pieces, of the numeric code fields
DriverCodePositions == {4, 5, 6, 10, 12}
CodePositions(contract) ==
    LET c == Len(contractPieces(contract))
        d == Len(DriverFieldWidths)
    IN  {5, 8, 13}
            \cup {c + k : k \in DriverCodePositions}
            \cup (IF IsSome(contract.secondaryDriver)
                  THEN {c + d + k : k \in DriverCodePositions}
                  ELSE {})

RECURSIVE LengthBefore(_, _)
LengthBefore(pieces, k) ==
    IF k = 1 THEN 0 ELSE LengthBefore(pieces, k - 1) + Len(pieces[k - 1])

\* The record holds a numeric code field that is wider than declared.
ContainsOverflowedField(contract, record) ==
    LET pieces == recordPieces(contract)
    IN  \E k \in CodePositions(contract) :
            /\ Len(pieces[k]) > CodeWidth
            /\ SliceIs(record, LengthBefore(pieces, k), Len(pieces[k]), pieces[k])

\* C11: when a numeric code field of a contract or of one of its drivers is
\* wider than its 9 digits, composition is aborted: formatContract never
\* returns a record that contains an overflowed numeric field.
C11_NoRecordWithOverflowedField ==
    op = "formatContract" => ~ContainsOverflowedField(arg, out)

\* The record length the documentation states
DocumentedRecordLength == 1505

\* C14: every record produced by formatContract is exactly 1505 characters
\* long.
C14_RecordIs1505 ==
    op = "formatContract" => Len(out) = DocumentedRecordLength

\* C17: with a secondary driver present, isValidContractData reports exactly
\* one secondary-driver violation when at least one of surname, name and
\* document number is empty (however many are), and none when all three are
\* non-empty; with no secondary driver it reports none.
C17_OneSecondaryDriverViolation ==
    op = "isValidContractData" =>
        LET sd == arg.secondaryDriver
            empties == IF IsSome(sd)
                       THEN {f \in {"surname", "name", "documentNumber"} : Len(Get(sd)[f]) = 0}
                       ELSE {}
        IN  Count(out, ErrSecondaryDriver) = IF empties = {} THEN 0 ELSE 1

\* A secondary driver with all three fields empty yields the one violation.
C17_Witness ==
    /\ op = "isValidContractData"
    /\ IsSome(arg.secondaryDriver)
    /\ Get(arg.secondaryDriver).surname = <<>>
    /\ Get(arg.secondaryDriver).name = <<>>
    /\ Get(arg.secondaryDriver).documentNumber = <<>>
    /\ Count(out, ErrSecondaryDriver) = 1

-----------------------------------------------------------------------------
(* Claims about the service calls (checked under SpecBatch)                *)

SingleRequestCalls == {"getToken", "checkContracts", "sendContracts", "getTable"}

\* One step of a call, as far as failures of the credential go: an exchange
\* that ends without a token stored ends the call with the token error and
\* issues nothing further; a key that is too short ends the call with the
\* key error before any service request.
C12_FailurePropagates ==
    \A t \in Tasks :
        /\ (pc[t] \in {"gt_fetch", "gt_json"} /\ pc'[t] \notin {"gt_fetch", "gt_json"}) =>
              \/ /\ pc[t] = "gt_json"
                 /\ token' = Some(TokenText(fetchId[t]))
                 /\ pc'[t] \in {"returned", "encrypt"}
              \/ /\ pc'[t] = "threw"
                 /\ ret'[t] = ErrToken
                 /\ exchanges' = exchanges
                 /\ sent'[t] = sent[t]
        /\ (pc[t] = "encrypt" /\ Len(apiKey) < MinApiKeyLength /\ pc'[t] # "encrypt") =>
              /\ pc'[t] = "threw"
              /\ ret'[t] = ErrApiKey
              /\ exchanges' = exchanges
              /\ sent'[t] = sent[t]

\* C12: the core never retries: within one call of getToken, checkContracts,
\* sendContracts or getTable at most one credential exchange and at most one
\* service request are issued, and a failed credential exchange or a key
\* that is too short ends the call with that failure.
C12_NoRetry ==
    /\ [](\A t \in Tasks :
             call[t] \in SingleRequestCalls =>
                 /\ fetched[t] <= 1
                 /\ Len(sent[t]) <= 1)
    /\ [][C12_FailurePropagates]_vars

\* A sendContracts call whose one credential exchange failed has thrown the
\* token error and issued no request.
C12_Witness ==
    /\ call[Sender] = "sendContracts"
    /\ pc[Sender] = "threw"
    /\ ret[Sender] = ErrToken
    /\ fetched[Sender] = 1
    /\ sent[Sender] = <<>>

\* C13: batch dispatch is sequential: the request for the next chunk is
\* issued only once the result of the one before has been pushed, so at most
\* one send request is outstanding at any time.
C13_SequentialDispatch ==
    \A t \in Tasks :
        call[t] = "batchSendContracts" =>
            LET outstanding == Len(sent[t]) - Len(results[t])
            IN  /\ outstanding \in {0, 1}
                /\ outstanding = 1 =>
                       pc[t] \in {"send_fetch", "send_json_ok", "send_json_err", "threw"}
                /\ \A k \in DOMAIN sent[t] : sent[t][k].body = dispatched[t][k]

\* The third chunk of 250 contracts is on its way after two results.
C13_Witness ==
    /\ call[Sender] = "batchSendContracts"
    /\ pc[Sender] = "send_fetch"
    /\ Len(contracts[Sender]) = 250
    /\ Len(sent[Sender]) = 3
    /\ Len(results[Sender]) = 2

\* The forms in which the token has left the client through task t's call:
\* the credentials of the requests it issued and, for getToken, the value
\* it returned.
Plain(text) == [cipher |-> "none", plaintext |-> text]

TokenFormsLeaving(t) ==
    {sent[t][k].authorization.credentials : k \in DOMAIN sent[t]}
        \cup (IF call[t] = "getToken" /\ pc[t] = "returned" THEN {Plain(ret[t])} ELSE {})

\* C15 (as claimed): the raw value of the cached token is never returned to
\* callers of the public interface; only its encrypted form leaves the
\* client.
C15_Original ==
    \A t \in Tasks : \A form \in TokenFormsLeaving(t) : form.cipher # "none"

\* C15 (amended): getToken() returns the raw token to its caller; the
\* service requests carry the token only as its AES-256-CBC ciphertext under
\* the first 32 characters of the API key, with the next 16 as IV, and no
\* other call hands the token to its caller.
C15_OnlyGetTokenReturnsRawToken ==
    \A t \in Tasks :
        /\ \A k \in DOMAIN sent[t] :
               LET credentials == sent[t][k].authorization.credentials
               IN  /\ sent[t][k].authorization.scheme = "Bearer"
                   /\ credentials.cipher = "aes-256-cbc"
                   /\ credentials.key = SubSeq(apiKey, 1, 32)
                   /\ credentials.iv = SubSeq(apiKey, 33, 48)
                   /\ \E x \in 1..exchanges : credentials.plaintext = TokenText(x)
        /\ \A form \in TokenFormsLeaving(t) :
               form.cipher = "none" =>
                   /\ call[t] = "getToken"
                   /\ form.plaintext = tok[t]

\* A request has been issued with the encrypted token of an exchange.
C15_Witness ==
    /\ call[Sender] = "checkContracts"
    /\ pc[Sender] = "send_fetch"
    /\ tok[Sender] = TokenText(1)
    /\ Len(sent[Sender]) = 1
    /\ sent[Sender][1].authorization.credentials.plaintext = TokenText(1)
    /\ sent[Sender][1].authorization.credentials.cipher = "aes-256-cbc"

\* C16: sendContracts rejects a list of more than 100 contracts before any
\* credential exchange or service request and leaves the cached token as it
\* was; a list of exactly 100 is accepted.
C16_TooManyRejectedFirst ==
    [][\A t \in Tasks :
          (pc[t] = "idle" /\ call'[t] = "sendContracts") =>
              IF Len(contracts'[t]) > 100
              THEN /\ pc'[t] = "threw"
                   /\ ret'[t] = ErrTooMany
                   /\ exchanges' = exchanges
                   /\ fetched'[t] = 0
                   /\ sent'[t] = <<>>
                   /\ token' = token
                   /\ tokenExpiry' = tokenExpiry
              ELSE pc'[t] \in {"gt_fetch", "encrypt"}]_vars

\* A list of 101 contracts has been rejected with a token cached before.
C16_Witness ==
    /\ call[Sender] = "sendContracts"
    /\ Len(contracts[Sender]) = 101
    /\ pc[Sender] = "threw"
    /\ ret[Sender] = ErrTooMany
    /\ sent[Sender] = <<>>
    /\ IsSome(token)

\* C19: validation runs first: no contract is composed into a record and
\* handed to the transport by checkContracts, sendContracts or
\* batchSendContracts unless the validation gate has reported no violation
\* for it.
C19_OnlyValidContractsAreSent ==
    \A t \in Tasks : \A k \in DOMAIN sent[t] :
        \A c \in DOMAIN sent[t][k].body :
            isValidContractData(ContractAt(sent[t][k].body[c])) = <<>>

\* C20: between every two successive chunk dispatches of batchSendContracts
\* a delay step is taken, no delay follows the last chunk, and the delay
\* lasts as long as the caller configured.
C20_ConfigurableDelayBetweenChunks ==
    [][\A t \in Tasks :
          call'[t] = "batchSendContracts" =>
              /\ (Len(dispatched'[t]) > Len(dispatched[t]) /\ Len(dispatched[t]) > 0) =>
                     pc[t] = "delay"
              /\ pc'[t] = "delay" =>
                     /\ Len(Concat(dispatched'[t])) < Len(contracts'[t])
                     /\ timer'[t] = pacing'[t]
              /\ pc'[t] = "returned" => pc[t] # "delay"]_vars

-----------------------------------------------------------------------------
(* Further claims about the token lifecycle (checked under Spec)           *)

\* The exchange of task t completes in this step: its response has been read.
ExchangeCompletes(t) == pc[t] = "gt_json" /\ pc'[t] \notin {"gt_json", "threw"}

\* A getToken() call of task t is served from the cache in this step.
ServedFromCache(t) == pc[t] = "idle" /\ hit'[t] = "hit"

\* C18 (as claimed): after a successful credential exchange the cached
\* expiry is the server-declared expiry minus exactly 5 minutes, and
\* getToken() serves the cached token only before that moment.
C18_Original ==
    [][\A t \in Tasks :
          /\ ExchangeCompletes(t) =>
                 /\ IsSome(expires'[t])
                 /\ tokenExpiry' = Some(Get(expires'[t]) - 5)
          /\ ServedFromCache(t) => (IsSome(tokenExpiry) /\ now < Get(tokenExpiry))]_vars

\* C18 (amended): as claimed when the response carries an expiry date; when
\* it carries none, the expiry stored before (if any) is left as it was.
C18_ExpiryIsDeclaredMinusFive ==
    [][\A t \in Tasks :
          /\ ExchangeCompletes(t) =>
                 IF IsSome(expires'[t])
                 THEN tokenExpiry' = Some(Get(expires'[t]) - 5)
                 ELSE tokenExpiry' = tokenExpiry
          /\ ServedFromCache(t) => (IsSome(tokenExpiry) /\ now < Get(tokenExpiry))]_vars

\* A token declared to expire 7 minutes after time 0 is cached until 2 and
\* a call at time 1 has been served from the cache.
C18_Witness ==
    \E t \in Tasks :
        /\ tokenExpiry = Some(2)
        /\ now = 1
        /\ pc[t] = "returned"
        /\ hit[t] = "hit"
        /\ exchanges = 1

-----------------------------------------------------------------------------
(* Claims about the coding tables (checked under SpecCodec)                *)

\* The lines of a text, by position: a line starts at the start of the text
\* or after a line feed, and runs up to the next line feed or the end.
LineStarts(text) == {1} \cup {i + 1 : i \in {j \in DOMAIN text : text[j] = "\n"}}

LineAt(text, start) ==
    LET ends == {i \in start..Len(text) : text[i] = "\n"}
        stop == IF ends = {} THEN Len(text) + 1
                ELSE CHOOSE i \in ends : \A j \in ends : i <= j
    IN  SubSeq(text, start, stop - 1)

\* The text of s from its first to its last unit that is not white space
Trimmed(s) ==
    LET inked == {i \in DOMAIN s : s[i] \notin WhiteSpace}
    IN  IF inked = {} THEN <<>>
        ELSE SubSeq(s, CHOOSE i \in inked : \A j \in inked : i <= j,
                       CHOOSE i \in inked : \A j \in inked : i >= j)

\* The entry a line stands for, if any: its code is the text before the first
\* '#', its value the text after it up to the next '#' or the end of the
\* line; both are non-empty.
HashesOf(line) == {i \in DOMAIN line : line[i] = "#"}

EntryOf(line) ==
    IF HashesOf(line) = {} THEN None
    ELSE LET first == CHOOSE i \in HashesOf(line) : \A j \in HashesOf(line) : i <= j
             later == HashesOf(line) \ {first}
             stop == IF later = {} THEN Len(line) + 1
                     ELSE CHOOSE i \in later : \A j \in later : i <= j
             code == SubSeq(line, 1, first - 1)
             value == SubSeq(line, first + 1, stop - 1)
         IN  IF code # <<>> /\ value # <<>>
             THEN Some([code |-> Trimmed(code), value |-> Trimmed(value)])
             ELSE None

-----------------------------------------------------------------------------
(* Claims about dates (checked under SpecCodec)                            *)

\* The two decimal digits of n (0..99)
TwoDigits(n) == <<DigitChars[(n \div 10) + 1], DigitChars[(n % 10) + 1]>>

\* The four decimal digits of n (0..9999)
FourDigits(n) == TwoDigits(n \div 100) \o TwoDigits(n % 100)

\* C22: formatDate renders the date's local fields as DD/MM/YYYY (10
\* characters) or, with time, DD/MM/YYYY HH:MM (16 characters), day, month,
\* hour and minute zero-padded to two digits and the month numbered from 1;
\* for a year in 1000..9999 the date field of a record is exactly 10 or 16
\* characters wide.
C22_FormatDate ==
    (op = "formatDate" /\ arg.date.fullYear \in 1000..9999) =>
        LET d == arg.date
            civil == TwoDigits(d.date) \o <<"/">> \o TwoDigits(d.month + 1) \o <<"/">>
                         \o FourDigits(d.fullYear)
            clock == TwoDigits(d.hours) \o <<":">> \o TwoDigits(d.minutes)
        IN  IF arg.withTime
            THEN /\ out = civil \o <<" ">> \o clock
                 /\ Len(out) = 16
                 /\ padEnd(out, 16, SPACE) = out
            ELSE /\ out = civil
                 /\ Len(out) = 10
                 /\ padEnd(out, 10, SPACE) = out

\* new Date(2024, 2, 5, 8, 3) with time is "05/03/2024 08:03".
C22_Witness ==
    /\ op = "formatDate"
    /\ arg.date = Date(5, 2, 2024, 8, 3)
    /\ arg.withTime
    /\ out = <<"0", "5", "/", "0", "3", "/", "2", "0", "2", "4", " ", "0", "8", ":", "0", "3">>

-----------------------------------------------------------------------------
(* Claims about text outside ASCII (checked under SpecCodec)               *)

\* The positions at which a surrogate pair (one character of two units) starts
PairStarts(s) ==
    {i \in DOMAIN s : s[i] \in HighSurrogates /\ i < Len(s) /\ s[i + 1] \in LowSurrogates}

\* The halves of surrogate pairs that stand alone
LoneSurrogates(s) ==
    {i \in DOMAIN s :
        \/ s[i] \in HighSurrogates /\ i \notin PairStarts(s)
        \/ s[i] \in LowSurrogates /\ (i - 1) \notin PairStarts(s)}

\* The number of characters (code points) of s
CharCount(s) == Len(s) - Cardinality(PairStarts(s))

\* C23: padString is multi-byte-safe: width is counted in characters, so for
\* a value with non-ASCII characters, those outside the Basic Multilingual
\* Plane included, the output has exactly `length` characters and truncation
\* never cuts a character in half.
C23_PadStringCountsCharacters ==
    (op = "padString" /\ LoneSurrogates(arg.value) = {}) =>
        /\ CharCount(out) = arg.length
        /\ LoneSurrogates(out) = {}

-----------------------------------------------------------------------------
(* Claims about the ciphertext (checked under SpecCodec)                   *)

-----------------------------------------------------------------------------
(* Claims about the outcome of a request (checked under SpecBatch)         *)

RequestIssued(t) == pc[t] \in {"send_fetch", "send_json_ok", "send_json_err"}

-----------------------------------------------------------------------------
(* Claims about the cached token (checked under Spec)                      *)

\* The calls whose credential exchange delivered the token `text` and whose
\* outcome the caller has not taken yet
ExchangesOf(text) ==
    {u \in Tasks : pc[u] = "returned" /\ hit[u] = "miss" /\ tok[u] = text}

\* C27: a getToken() call that returns without a credential exchange returns
\* the stored token, the token of the most recent successful exchange, and
\* the response of that exchange carried an expiry date whose value minus 5
\* minutes is still in the future; a token whose response carried no expiry
\* date is never served from the cache.
C27_ServedTokenCarriedAnExpiry ==
    [][\A t \in Tasks :
          ServedFromCache(t) =>
              /\ tok'[t] = Get(token)
              /\ \A u \in ExchangesOf(tok'[t]) :
                    /\ IsSome(expires[u])
                    /\ now < Get(expires[u]) - SafetyMarginMinutes
      ]_vars

\* The step in which the credential exchange of t fails
ExchangeFails(t) == pc[t] \in {"gt_fetch", "gt_json"} /\ pc'[t] = "threw"

\* C28: a failed credential exchange leaves the cached token and the cached
\* expiry as they were, and leaves no valid token behind, so that the next
\* getToken() call performs a fresh exchange.
C28_FailedExchangeLeavesCacheInvalid ==
    [][\A t \in Tasks :
          ExchangeFails(t) =>
              /\ token' = token
              /\ tokenExpiry' = tokenExpiry
              /\ ~cachedTokenValid'
      ]_vars

-----------------------------------------------------------------------------
(* Claims about the results of a batch (checked under SpecBatch)           *)

ErrorResult == [responses |-> <<>>, error |-> Some("ErrorResponse")]

\* The contracts the k-th result of a batch belongs to (k counted from 1)
ContractsOfResult(list, k) ==
    [j \in 1..(Min(k * 100, Len(list)) - (k - 1) * 100) |-> list[(k - 1) * 100 + j]]

\* A step of a batch: a result is pushed for the chunk just answered, the
\* error of a response that is not ok included, and while contracts remain
\* the batch goes on; a throw ends it.
C29_BatchStep(t) ==
    /\ (pc'[t] # "idle" /\ ~(pc[t] \in {"send_json_ok", "send_json_err"} /\ pc'[t] # "threw")) =>
          results'[t] = results[t]
    /\ (pc[t] \in {"send_json_ok", "send_json_err"} /\ pc'[t] \notin {pc[t], "threw"}) =>
          /\ Len(results'[t]) = Len(results[t]) + 1
          /\ SubSeq(results'[t], 1, Len(results[t])) = results[t]
          /\ Len(results'[t]) = Len(sent[t])
          /\ sent[t][Len(sent[t])].body = ContractsOfResult(contracts[t], Len(results'[t]))
          /\ pc[t] = "send_json_err" => results'[t][Len(results'[t])] = ErrorResult
          /\ pc'[t] = IF Len(results'[t]) * 100 < Len(contracts[t])
                      THEN "delay" ELSE "returned"
    /\ (pc[t] = "delay" /\ pc'[t] # "delay") =>
          /\ Len(dispatched'[t]) = Len(dispatched[t]) + 1
          /\ pc'[t] \in {"gt_fetch", "encrypt"}
    /\ pc[t] = "threw" =>
          /\ dispatched'[t] \in {dispatched[t], <<>>}
          /\ sent'[t] \in {sent[t], <<>>}

\* C29: batchSendContracts returns one result per chunk, in the order of the
\* chunks (result i belongs to contracts i*100 .. i*100+99); a chunk answered
\* with a response that is not ok is recorded as an error result and the
\* chunks after it are still sent; a chunk whose send throws ends the batch:
\* no later chunk is sent and what is thrown is the failure, not the results
\* so far.  An empty list takes no credential exchange and no request and
\* returns an empty list.
C29_OneResultPerChunk ==
    /\ [](\A t \in Tasks :
             call[t] = "batchSendContracts" =>
                 /\ pc[t] = "returned" =>
                       /\ ret[t] = results[t]
                       /\ Len(ret[t]) = CeilDiv(Len(contracts[t]), 100)
                       /\ Len(sent[t]) = Len(ret[t])
                 /\ pc[t] = "threw" =>
                       /\ ret[t] \in {ErrToken, ErrApiKey, ErrSend}
                       /\ Len(dispatched[t]) = Len(results[t]) + 1
                       /\ Len(results[t]) < CeilDiv(Len(contracts[t]), 100)
                 /\ (pc[t] = "returned" /\ contracts[t] = <<>>) =>
                       /\ ret[t] = <<>>
                       /\ sent[t] = <<>>
                       /\ hit[t] = "none"
                       /\ fetched[t] = 0)
    /\ [][\A t \in Tasks : call[t] = "batchSendContracts" => C29_BatchStep(t)]_vars

\* A batch of 250 contracts has returned three results, the first of them
\* the error of a response that was not ok.
C29_Witness ==
    /\ call[Sender] = "batchSendContracts"
    /\ pc[Sender] = "returned"
    /\ Len(contracts[Sender]) = 250
    /\ Len(ret[Sender]) = 3
    /\ ret[Sender][1] = ErrorResult
    /\ ret[Sender][3].error = None

\* A batch of 250 contracts has thrown at its second chunk, after one result.
C29_WitnessThrow ==
    /\ call[Sender] = "batchSendContracts"
    /\ pc[Sender] = "threw"
    /\ Len(contracts[Sender]) = 250
    /\ Len(results[Sender]) = 1
    /\ Len(dispatched[Sender]) = 2

-----------------------------------------------------------------------------
(* Claims about the order of a service call (checked under SpecBatch)      *)

ServiceCalls == {"checkContracts", "sendContracts", "getTable"}

\* A step of a service call: a request is issued only by the step that
\* follows getToken(), and carries the ciphertext of the token this
\* getToken() handed back.
C30_RequestStep(t) ==
    sent'[t] # sent[t] /\ sent'[t] # <<>> =>
        /\ pc[t] = "encrypt"
        /\ pc'[t] = "send_fetch"
        /\ hit[t] \in {"hit", "miss"}
        /\ tok[t] # <<>>
        /\ IsSome(token) /\ tok[t] = Get(token)
        /\ Len(sent'[t]) = Len(sent[t]) + 1
        /\ LET credentials == sent'[t][Len(sent'[t])].authorization.credentials
           IN  /\ credentials.cipher = "aes-256-cbc"
               /\ credentials.plaintext = utf8Encode(tok[t])
               /\ credentials.key = SubSeq(apiKey, 1, 32)

\* C30: in checkContracts, sendContracts and getTable the token is obtained
\* and encrypted before the service request is issued, the ciphertext is
\* computed anew (from the token just obtained) for every request, and when
\* the credential exchange fails or the key is shorter than 48 characters
\* no service request is issued at all.
C30_TokenThenCiphertextThenRequest ==
    /\ [](\A t \in Tasks :
             call[t] \in ServiceCalls =>
                 /\ pc[t] \in {"gt_fetch", "gt_json", "encrypt"} => sent[t] = <<>>
                 /\ (pc[t] = "threw" /\ ret[t] \in {ErrToken, ErrApiKey}) => sent[t] = <<>>
                 /\ Len(apiKey) < 48 => sent[t] = <<>>)
    /\ [][\A t \in Tasks : C30_RequestStep(t)]_vars

\* getTable has issued its request under the ciphertext of the token of the
\* second exchange.
C30_Witness ==
    /\ call[Sender] = "getTable"
    /\ pc[Sender] = "send_fetch"
    /\ Len(sent[Sender]) = 1
    /\ tok[Sender] = TokenText(2)
    /\ sent[Sender][1].authorization.credentials.plaintext = utf8Encode(TokenText(2))

\* checkContracts has thrown for a key of 47 characters after its token was
\* obtained, and issued no request.
C30_WitnessShortKey ==
    /\ call[Sender] = "checkContracts"
    /\ pc[Sender] = "threw"
    /\ ret[Sender] = ErrApiKey
    /\ Len(apiKey) = 47
    /\ tok[Sender] # <<>>
    /\ sent[Sender] = <<>>

=============================================================================
